---- MODULE Spec2Model ----
(***************************************************************************)
(* flambe: Experiment.run (src/flambe/experiment/experiment.py).           *)
(*                                                                         *)
(* An Experiment holds an ordered pipeline of stages.  run() walks the     *)
(* pipeline in declaration order, resolves each stage's immediate          *)
(* dependencies to the object ids of the stages dispatched before it,      *)
(* submits the stage to ray and records the returned object id; after the  *)
(* loop it waits on every recorded object id.                              *)
(*                                                                         *)
(* Pipeline, Stage, Environment and ray are imported by experiment.py and  *)
(* are modelled from the specification (sections 4.1, 4.2, 4.4 and 6).     *)
(***************************************************************************)
EXTENDS Integers, Sequences, FiniteSets, TLC

(* ------------------------------- bounds -------------------------------- *)

\* number of run() invocations on the one Experiment object
MaxRuns == 2

(* ------------------------------ universe ------------------------------- *)

\* stage names, in the order a pipeline declares them; a pipeline declares a
\* prefix of this sequence, and a dependency may name any stage of it
Universe == <<"A", "B", "C">>

RangeOf(s) == {s[i] : i \in 1..Len(s)}

Prefixes == {SubSeq(Universe, 1, n) : n \in 0..Len(Universe)}

\* Optional[T]: None is the empty sequence, a value x is <<x>>
None == <<>>

Some(x) == <<x>>

\* dict.get(key, None)
GetOrNone(d, key) == IF key \in DOMAIN d THEN Some(d[key]) ELSE None

EmptyDict == [k \in {} |-> 0]

\* a pipeline: declaration order and the immediate dependency names of each stage
Pipelines ==
    UNION {[order : {o}, deps : [RangeOf(o) -> SUBSET RangeOf(Universe)]] : o \in Prefixes}

WellFormed(p) == \A n \in RangeOf(p.order) : n \notin p.deps[n]

\* keyword arguments of the constructor: reduce, cpus_per_trial, gpus_per_trial
CtorArgs ==
    { [reduce |-> EmptyDict, cpus_per_trial |-> EmptyDict, gpus_per_trial |-> EmptyDict],
      [reduce |-> [k \in {"B"} |-> 1],
       cpus_per_trial |-> [k \in {"A"} |-> 2],
       gpus_per_trial |-> [k \in {"A"} |-> 0]] }

SavePath == "flambe_output"

\* Environment(output path, debug flag)
Environment(path) == [origin |-> "constructed", path |-> path, debug |-> FALSE]

GivenEnv == [origin |-> "given", path |-> "elsewhere", debug |-> TRUE]

EnvArgs == {None, Some(GivenEnv)}

(* ---------------------------- Pipeline model --------------------------- *)

Position(p, n) == CHOOSE i \in 1..Len(p.order) : p.order[i] = n

DepsOf(p, n) == IF n \in RangeOf(p.order) THEN p.deps[n] ELSE {}

\* pipeline.schemas.items(): the stage names in declaration order
Schemas(p) == p.order

\* the immediate dependency names of a stage, as an ordered list
ImmediateDependencies(p, n) == SelectSeq(Universe, LAMBDA d : d \in DepsOf(p, n))

RECURSIVE Closure(_, _)
Closure(p, S) ==
    LET T == S \cup UNION {DepsOf(p, n) : n \in S}
    IN  IF T = S THEN S ELSE Closure(p, T)

\* everything a stage depends on, directly or through other stages
TransitiveDependencies(p, n) == Closure(p, DepsOf(p, n))

\* pipeline.sub_pipeline(name): the stage, its dependency closure, and its
\* immediate dependency names
SubPipeline(p, n) ==
    [stages |-> Closure(p, {n}), dependencies |-> ImmediateDependencies(p, n)]

\* declaration order is topological: every dependency is declared earlier
ValidPipeline(p) ==
    \A n \in RangeOf(p.order) :
        \A d \in p.deps[n] :
            d \in RangeOf(p.order) /\ Position(p, d) < Position(p, n)

(* -------------------------------- state -------------------------------- *)

VARIABLES
    requested,        \* the keyword arguments the constructor was called with
    self,             \* the Experiment's fields
    ray_initialized,  \* ray.is_initialized()
    ray_local_mode,   \* the local_mode ray was initialised with
    tasks,            \* the substrate: one record per submitted stage run, by object id
    run,              \* number of run() invocations so far
    pc,               \* where the current run() is
    env_arg,          \* run(): the env argument as passed
    env,              \* run(): env
    stage_to_id,      \* run(): stage_to_id
    idx,              \* run(): number of loop iterations done
    error             \* the exception the current run() raised, if any

vars == <<requested, self, ray_initialized, ray_local_mode, tasks, run, pc, env_arg, env,
          stage_to_id, idx, error>>

Resolved(h) == tasks[h].status \in {"ok", "failed"}

Started(h) == tasks[h].status # "pending"

\* the object ids handed out during run number r
TasksOfRun(r) == {h \in DOMAIN tasks : tasks[h].run = r}

\* Experiment.__init__
Constructed(name, save_path, pipeline, args) ==
    [name |-> name,
     save_path |-> save_path,
     pipeline |-> pipeline,
     reduce |-> args.reduce,
     cpus_per_trial |-> EmptyDict,
     gpus_per_trial |-> EmptyDict]

Init ==
    /\ requested \in CtorArgs
    /\ \E p \in Pipelines :
          /\ WellFormed(p)
          /\ self = Constructed("experiment", SavePath, p, requested)
    /\ ray_initialized \in BOOLEAN
    /\ ray_local_mode = IF ray_initialized THEN Some(FALSE) ELSE None
    /\ tasks = <<>>
    /\ run = 0
    /\ pc = "NotStarted"
    /\ env_arg = None
    /\ env = None
    /\ stage_to_id = EmptyDict
    /\ idx = 0
    /\ error = None

(* ------------------------------- run() --------------------------------- *)

\* variant: ray.init is called on every run()
RunEntry_AlwaysInit(e) ==
    /\ pc \in {"NotStarted", "Returned", "Raised"}
    /\ run < MaxRuns
    /\ run' = run + 1
    /\ env_arg' = e
    /\ env' = IF e # None THEN e ELSE Some(Environment(self.save_path))
    /\ ray_initialized' = TRUE
    /\ ray_local_mode' = Some(env'[1].debug)
    /\ stage_to_id' = EmptyDict
    /\ idx' = 0
    /\ error' = None
    /\ pc' = "Dispatching"
    /\ UNCHANGED <<requested, self, tasks>>

\* variant: the table outlives the run() that filled it
RunEntry_KeepsTable(e) ==
    /\ pc \in {"NotStarted", "Returned", "Raised"}
    /\ run < MaxRuns
    /\ run' = run + 1
    /\ env_arg' = e
    /\ env' = IF e # None THEN e ELSE Some(Environment(self.save_path))
    /\ IF ~ray_initialized
          THEN /\ ray_initialized' = TRUE
               /\ ray_local_mode' = Some(env'[1].debug)
          ELSE UNCHANGED <<ray_initialized, ray_local_mode>>
    /\ idx' = 0
    /\ error' = None
    /\ pc' = "Dispatching"
    /\ UNCHANGED <<requested, self, tasks, stage_to_id>>

\* lines 63-69: set up the environment, ray, and the empty table
RunEntry(e) ==
    /\ pc \in {"NotStarted", "Returned", "Raised"}
    /\ run < MaxRuns
    /\ run' = run + 1
    /\ env_arg' = e
    /\ env' = IF e # None THEN e ELSE Some(Environment(self.save_path))
    /\ IF ~ray_initialized
          THEN /\ ray_initialized' = TRUE
               /\ ray_local_mode' = Some(env'[1].debug)
          ELSE UNCHANGED <<ray_initialized, ray_local_mode>>
    /\ stage_to_id' = EmptyDict
    /\ idx' = 0
    /\ error' = None
    /\ pc' = "Dispatching"
    /\ UNCHANGED <<requested, self, tasks>>

\* line 95: stage_to_id.values()
Values(table) == {table[k] : k \in DOMAIN table}

\* variant: the loop walks the declaration order from its end
CurrentName_Reverse == Schemas(self.pipeline)[Len(Schemas(self.pipeline)) - idx]

\* the stage the loop is at
CurrentName == Schemas(self.pipeline)[idx + 1]

\* the dependency names that stage_to_id[d] has no entry for
Missing(table, deps) == SelectSeq(deps, LAMBDA d : d \notin DOMAIN table)

\* variant: the last dependency is left out of the list
DependencyIds_DropLast(table, deps) == [i \in 1..(Len(deps) - 1) |-> table[deps[i]]]

\* variant: every object id recorded so far is passed, related or not
DependencyIds_WholeTable(table, deps) ==
    LET known == SelectSeq(Universe, LAMBDA d : d \in DOMAIN table)
    IN  [i \in 1..Len(known) |-> table[known[i]]]

\* line 75: [stage_to_id[d] for d in sub_pipeline.dependencies]
DependencyIds(table, deps) == [i \in 1..Len(deps) |-> table[deps[i]]]

\* variant: the table is rebuilt around the new entry
Insert_Rebuild(table, name, object_id) == [k \in {name} |-> object_id]

\* line 91: stage_to_id[name] = object_id
Insert(table, name, object_id) ==
    [k \in DOMAIN table \cup {name} |-> IF k = name THEN object_id ELSE table[k]]

\* variant: the object id is ready as soon as the stage is constructed
Submitted_ReadyAtDispatch(name, sub_pipeline, depedency_ids) ==
    [run |-> run,
     name |-> name,
     pipeline |-> sub_pipeline.stages,
     reductions |-> GetOrNone(self.reduce, name),
     dependencies |-> depedency_ids,
     cpus_per_trial |-> GetOrNone(self.cpus_per_trial, name),
     gpus_per_trial |-> GetOrNone(self.gpus_per_trial, name),
     environment |-> env[1],
     status |-> "ok"]

\* lines 78-89: the Stage actor and its run, as submitted to ray
Submitted(name, sub_pipeline, depedency_ids) ==
    [run |-> run,
     name |-> name,
     pipeline |-> sub_pipeline.stages,
     reductions |-> GetOrNone(self.reduce, name),
     dependencies |-> depedency_ids,
     cpus_per_trial |-> GetOrNone(self.cpus_per_trial, name),
     gpus_per_trial |-> GetOrNone(self.gpus_per_trial, name),
     environment |-> env[1],
     status |-> "pending"]

\* variant: the loop gets the previous stage's result before it goes on
DispatchStage_Waits ==
    /\ pc = "Dispatching"
    /\ idx < Len(Schemas(self.pipeline))
    /\ \A h \in Values(stage_to_id) : Resolved(h)
    /\ LET name == CurrentName
           sub_pipeline == SubPipeline(self.pipeline, name)
       IN  /\ Missing(stage_to_id, sub_pipeline.dependencies) = <<>>
           /\ LET depedency_ids == DependencyIds(stage_to_id, sub_pipeline.dependencies)
                  object_id == Len(tasks) + 1
              IN  /\ tasks' = Append(tasks, Submitted(name, sub_pipeline, depedency_ids))
                  /\ stage_to_id' = Insert(stage_to_id, name, object_id)
    /\ idx' = idx + 1
    /\ UNCHANGED <<requested, self, ray_initialized, ray_local_mode, run, pc, env_arg, env, error>>

\* lines 72-91, one iteration that finds every dependency in the table
DispatchStage ==
    /\ pc = "Dispatching"
    /\ idx < Len(Schemas(self.pipeline))
    /\ LET name == CurrentName
           sub_pipeline == SubPipeline(self.pipeline, name)
       IN  /\ Missing(stage_to_id, sub_pipeline.dependencies) = <<>>
           /\ LET depedency_ids == DependencyIds(stage_to_id, sub_pipeline.dependencies)
                  object_id == Len(tasks) + 1
              IN  /\ tasks' = Append(tasks, Submitted(name, sub_pipeline, depedency_ids))
                  /\ stage_to_id' = Insert(stage_to_id, name, object_id)
    /\ idx' = idx + 1
    /\ UNCHANGED <<requested, self, ray_initialized, ray_local_mode, run, pc, env_arg, env, error>>

\* the error names of section 7 for the KeyError of line 75
ErrorKind(p, d) ==
    IF d \in RangeOf(p.order) THEN "UnresolvedDependencyError" ELSE "UnknownStageError"

\* variant: the failed lookup is swallowed and the loop moves on
DispatchRaise_Skip ==
    /\ pc = "Dispatching"
    /\ idx < Len(Schemas(self.pipeline))
    /\ Missing(stage_to_id, SubPipeline(self.pipeline, CurrentName).dependencies) # <<>>
    /\ idx' = idx + 1
    /\ UNCHANGED <<requested, self, ray_initialized, ray_local_mode, tasks, run, pc, env_arg, env,
                   stage_to_id, error>>

\* variant: the stages dispatched so far are cancelled when the lookup fails
DispatchRaise_Cancels ==
    /\ pc = "Dispatching"
    /\ idx < Len(Schemas(self.pipeline))
    /\ LET name == CurrentName
           sub_pipeline == SubPipeline(self.pipeline, name)
           missing == Missing(stage_to_id, sub_pipeline.dependencies)
       IN  /\ missing # <<>>
           /\ error' = Some([stage |-> name, key |-> missing[1],
                             kind |-> ErrorKind(self.pipeline, missing[1])])
    /\ tasks' = [h \in DOMAIN tasks |->
                    IF h \in Values(stage_to_id) /\ ~Resolved(h)
                       THEN [tasks[h] EXCEPT !.status = "failed"]
                       ELSE tasks[h]]
    /\ pc' = "Raised"
    /\ UNCHANGED <<requested, self, ray_initialized, ray_local_mode, run, env_arg, env,
                   stage_to_id, idx>>

\* lines 72-75, one iteration in which stage_to_id[d] raises
DispatchRaise ==
    /\ pc = "Dispatching"
    /\ idx < Len(Schemas(self.pipeline))
    /\ LET name == CurrentName
           sub_pipeline == SubPipeline(self.pipeline, name)
           missing == Missing(stage_to_id, sub_pipeline.dependencies)
       IN  /\ missing # <<>>
           /\ error' = Some([stage |-> name, key |-> missing[1],
                             kind |-> ErrorKind(self.pipeline, missing[1])])
    /\ pc' = "Raised"
    /\ UNCHANGED <<requested, self, ray_initialized, ray_local_mode, tasks, run, env_arg, env,
                   stage_to_id, idx>>

\* variant: the wait is for one object id
NumReturns_One(table) == IF DOMAIN table = {} THEN 0 ELSE 1

\* variant: the wait is for one object id more than there are
NumReturns_OneMore(table) == Cardinality(DOMAIN table) + 1

\* variant: the wait is for at least one object id
NumReturns_AtLeastOne(table) == IF DOMAIN table = {} THEN 1 ELSE Cardinality(DOMAIN table)

\* line 95: len(stage_to_id)
NumReturns(table) == Cardinality(DOMAIN table)

\* variant: the wait is reached from inside the loop
EnterBarrier_Early ==
    /\ pc = "Dispatching"
    /\ idx >= 1
    /\ pc' = "AwaitingCompletion"
    /\ UNCHANGED <<requested, self, ray_initialized, ray_local_mode, tasks, run, env_arg, env,
                   stage_to_id, idx, error>>

\* line 95: the loop is over and ray.wait is called
EnterBarrier ==
    /\ pc = "Dispatching"
    /\ idx = Len(Schemas(self.pipeline))
    /\ pc' = "AwaitingCompletion"
    /\ UNCHANGED <<requested, self, ray_initialized, ray_local_mode, tasks, run, env_arg, env,
                   stage_to_id, idx, error>>

\* ray.wait(object_ids, num_returns): returns once num_returns of them are ready
WaitReturns(object_ids, num_returns) ==
    Cardinality({h \in object_ids : Resolved(h)}) >= num_returns

\* variant: the wait ends as soon as one object id has resolved to an error
BarrierReturn_FailFast ==
    /\ pc = "AwaitingCompletion"
    /\ \/ WaitReturns(Values(stage_to_id), NumReturns(stage_to_id))
       \/ \E h \in Values(stage_to_id) : tasks[h].status = "failed"
    /\ pc' = "Returned"
    /\ UNCHANGED <<requested, self, ray_initialized, ray_local_mode, tasks, run, env_arg, env,
                   stage_to_id, idx, error>>

\* line 95: ray.wait returns; its result is dropped and run() returns None
BarrierReturn ==
    /\ pc = "AwaitingCompletion"
    /\ WaitReturns(Values(stage_to_id), NumReturns(stage_to_id))
    /\ pc' = "Returned"
    /\ UNCHANGED <<requested, self, ray_initialized, ray_local_mode, tasks, run, env_arg, env,
                   stage_to_id, idx, error>>

(* ----------------------------- the substrate --------------------------- *)

\* ray starts a submitted stage run once every prerequisite has resolved
StageStart(h) ==
    /\ h \in DOMAIN tasks
    /\ tasks[h].status = "pending"
    /\ \A i \in 1..Len(tasks[h].dependencies) : Resolved(tasks[h].dependencies[i])
    /\ tasks' = [tasks EXCEPT ![h].status = "running"]
    /\ UNCHANGED <<requested, self, ray_initialized, ray_local_mode, run, pc, env_arg, env,
                   stage_to_id, idx, error>>

\* Stage.run finishes: its object id resolves to a value or to an error
StageFinish(h, outcome) ==
    /\ h \in DOMAIN tasks
    /\ tasks[h].status = "running"
    /\ tasks' = [tasks EXCEPT ![h].status = outcome]
    /\ UNCHANGED <<requested, self, ray_initialized, ray_local_mode, run, pc, env_arg, env,
                   stage_to_id, idx, error>>

Next ==
    \/ \E e \in EnvArgs : RunEntry(e)
    \/ DispatchStage
    \/ DispatchRaise
    \/ EnterBarrier
    \/ BarrierReturn
    \/ \E h \in DOMAIN tasks : StageStart(h)
    \/ \E h \in DOMAIN tasks : \E outcome \in {"ok", "failed"} : StageFinish(h, outcome)

Spec == Init /\ [][Next]_vars

\* the next step of run(): one more loop iteration, or the barrier
RunStep == DispatchStage \/ DispatchRaise \/ EnterBarrier \/ BarrierReturn

\* the next step of some stage run
StageStep ==
    \E h \in DOMAIN tasks :
        StageStart(h) \/ \E outcome \in {"ok", "failed"} : StageFinish(h, outcome)

\* run() keeps executing until it blocks, returns or raises; as long as some
\* stage run can start or is at work, one of them starts or finishes (a stage
\* run that can start stays so until it does, and one at work until it
\* finishes).  Nothing obliges the caller to invoke run() again.
Fairness == WF_vars(RunStep) /\ WF_vars(StageStep)

FairSpec == Spec /\ Fairness

(* ------------------------------- claims -------------------------------- *)

\* the object id handed out for stage n during run number r, as a set
HandlesOf(r, n) == {g \in TasksOfRun(r) : tasks[g].name = n}

\* the work of task h begins in this step
Begins(h) == tasks[h].status = "pending" /\ tasks'[h].status = "running"

\* C1: whenever the work of a stage begins, every handle in its prerequisite
\* list has resolved, and every immediate dependency of the stage has a
\* resolved handle of the same run.
C1_StartsAfterPrerequisites ==
    [][\A h \in DOMAIN tasks :
          Begins(h) =>
             /\ \A i \in 1..Len(tasks[h].dependencies) : Resolved(tasks[h].dependencies[i])
             /\ \A d \in DepsOf(self.pipeline, tasks[h].name) :
                    \E g \in HandlesOf(tasks[h].run, d) : Resolved(g)]_vars

\* a stage with two immediate dependencies has begun its work
C1_Witness ==
    \E h \in DOMAIN tasks :
        Started(h) /\ Cardinality(DepsOf(self.pipeline, tasks[h].name)) = 2

\* a stage is dispatched in this step
Dispatches == Len(tasks') = Len(tasks) + 1

\* C2: for a valid pipeline, the dependencies a stage is dispatched with are
\* exactly the object ids of its immediate dependencies, one each, and each
\* of them was in the table before the dispatch.
C2_ExactImmediateHandles ==
    [][(Dispatches /\ ValidPipeline(self.pipeline)) =>
          LET t == tasks'[Len(tasks')]
              deps == DepsOf(self.pipeline, t.name)
          IN  /\ Len(t.dependencies) = Cardinality(deps)
              /\ \A d \in deps :
                     /\ d \in DOMAIN stage_to_id
                     /\ stage_to_id[d] \in HandlesOf(run, d)
                     /\ stage_to_id[d] \in RangeOf(t.dependencies)
              /\ \A g \in RangeOf(t.dependencies) :
                     \E d \in deps : g \in HandlesOf(run, d)]_vars

\* a stage was dispatched with one prerequisite although it depends on two
\* stages, one of them only through the other
C2_Witness ==
    /\ ValidPipeline(self.pipeline)
    /\ \E h \in DOMAIN tasks :
          /\ Len(tasks[h].dependencies) = 1
          /\ Cardinality(TransitiveDependencies(self.pipeline, tasks[h].name)) = 2

\* every dependency names a declared stage, and some stage is declared before
\* one of its dependencies
MisorderedPipeline(p) ==
    /\ \A n \in RangeOf(p.order) : p.deps[n] \subseteq RangeOf(p.order)
    /\ ~ValidPipeline(p)

\* the stages declared before position i
DeclaredBefore(p, i) == {p.order[j] : j \in 1..(i - 1)}

\* the position of the first stage one of whose dependencies is not declared before it
FirstOffending(p) ==
    CHOOSE i \in 1..Len(p.order) :
        /\ ~(p.deps[p.order[i]] \subseteq DeclaredBefore(p, i))
        /\ \A j \in 1..(i - 1) : p.deps[p.order[j]] \subseteq DeclaredBefore(p, j)

\* C3 as stated: for a misordered pipeline run() raises
\* UnresolvedDependencyError, and at that moment no stage of the run has
\* begun its work.
C3_RaisesBeforeAnyWork ==
    [][(MisorderedPipeline(self.pipeline) /\ pc = "Dispatching" /\ pc' = "Raised") =>
          /\ error'[1].kind = "UnresolvedDependencyError"
          /\ \A h \in TasksOfRun(run) : ~Started(h)]_vars

\* C3, amended: for a misordered pipeline every run() stops at the first
\* stage with a dependency that is not declared before it: no stage at or
\* after that one is ever dispatched, the barrier is never reached, and the
\* error is an UnresolvedDependencyError for that stage's first such
\* dependency.
C3_RaisesAtFirstOffending ==
    MisorderedPipeline(self.pipeline) =>
        LET p == self.pipeline
            i == FirstOffending(p)
        IN  /\ pc \notin {"AwaitingCompletion", "Returned"}
            /\ \A h \in DOMAIN tasks : Position(p, tasks[h].name) < i
            /\ pc = "Raised" =>
                   /\ error # None
                   /\ error[1].stage = p.order[i]
                   /\ error[1].key \in p.deps[p.order[i]] \ DeclaredBefore(p, i)
                   /\ error[1].kind = "UnresolvedDependencyError"
                   /\ DOMAIN stage_to_id = DeclaredBefore(p, i)

\* the second run() on a misordered pipeline has raised while a stage
\* declared before the offending one is already at work
C3_Witness ==
    /\ MisorderedPipeline(self.pipeline)
    /\ run = 2
    /\ pc = "Raised"
    /\ \E h \in TasksOfRun(run) : tasks[h].status = "running"

\* every object id in the table has resolved
AllResolved == \A n \in DOMAIN stage_to_id : Resolved(stage_to_id[n])

\* C4: ray.wait returns only when every object id in the table has resolved,
\* and once they all have it does return.
C4_BarrierIffAllResolved ==
    /\ [][(pc = "AwaitingCompletion" /\ pc' = "Returned") => AllResolved]_vars
    /\ ((pc = "AwaitingCompletion" /\ AllResolved) ~> (pc = "Returned"))

\* run() has returned from the barrier over three object ids, one of them failed
C4_Witness ==
    /\ pc = "Returned"
    /\ Cardinality(Values(stage_to_id)) = 3
    /\ \E n \in DOMAIN stage_to_id : tasks[stage_to_id[n]].status = "failed"

\* C5: when a stage has failed, run() does not return normally.
C5_FailureReported ==
    pc = "Returned" => \A n \in DOMAIN stage_to_id : tasks[stage_to_id[n]].status # "failed"

\* C6: every stage is dispatched with the CPU and GPU request the experiment
\* was constructed with for its name, and with None where there is none.
C6_RequestedResources ==
    \A h \in DOMAIN tasks :
        /\ tasks[h].cpus_per_trial = GetOrNone(requested.cpus_per_trial, tasks[h].name)
        /\ tasks[h].gpus_per_trial = GetOrNone(requested.gpus_per_trial, tasks[h].name)

\* C7: while run() is in its loop it can always take its next step, whatever
\* the state of the stages dispatched so far; it is only at the barrier that
\* it can be unable to move.
C7_LoopNeverWaits ==
    pc = "Dispatching" => ENABLED (DispatchStage \/ DispatchRaise \/ EnterBarrier)

\* three mutually independent stages are all dispatched and in the table,
\* run() is at the barrier, and none of them has finished
C7_Witness ==
    /\ pc = "AwaitingCompletion"
    /\ Len(self.pipeline.order) = 3
    /\ \A n \in RangeOf(self.pipeline.order) : self.pipeline.deps[n] = {}
    /\ Cardinality(Values(stage_to_id)) = 3
    /\ \A h \in Values(stage_to_id) : ~Resolved(h)

\* every stage of the pipeline has an object id of the current run that has resolved
EveryStageResolved ==
    \A n \in RangeOf(self.pipeline.order) : \E h \in HandlesOf(run, n) : Resolved(h)

\* C8: for a valid pipeline a run() that has started ends by returning, with
\* every stage dispatched, started and resolved.
C8_RunTerminates ==
    (pc = "Dispatching" /\ ValidPipeline(self.pipeline))
        ~> (pc = "Returned" /\ EveryStageResolved)

\* run() has returned on a chain of three stages
C8_Witness ==
    /\ pc = "Returned"
    /\ ValidPipeline(self.pipeline)
    /\ Len(self.pipeline.order) = 3
    /\ self.pipeline.deps["B"] = {"A"}
    /\ self.pipeline.deps["C"] = {"B"}
    /\ EveryStageResolved

\* C9: within one run no stage name is dispatched twice, the table maps
\* exactly the dispatched names to their object ids, an entry is never
\* overwritten or removed, and at the barrier every stage has its entry.
C9_OneHandlePerStage ==
    /\ [](/\ \A n \in RangeOf(Universe) : Cardinality(HandlesOf(run, n)) <= 1
          /\ DOMAIN stage_to_id = {tasks[h].name : h \in TasksOfRun(run)}
          /\ \A n \in DOMAIN stage_to_id : stage_to_id[n] \in HandlesOf(run, n)
          /\ pc = "AwaitingCompletion" => DOMAIN stage_to_id = RangeOf(self.pipeline.order))
    /\ [][run' = run =>
             \A n \in DOMAIN stage_to_id :
                 n \in DOMAIN stage_to_id' /\ stage_to_id'[n] = stage_to_id[n]]_vars

\* the second run is at the barrier with three entries in its table
C9_Witness ==
    /\ run = 2
    /\ pc = "AwaitingCompletion"
    /\ Cardinality(DOMAIN stage_to_id) = 3

\* C10: a stage that has begun its work has every stage it depends on,
\* directly or not, resolved in the same run; and an object id is unresolved
\* when it is handed out and resolves only when its stage's work ends.
C10_TransitiveOrder ==
    /\ [](\A h \in DOMAIN tasks :
             Started(h) =>
                \A d \in TransitiveDependencies(self.pipeline, tasks[h].name) :
                    \E g \in HandlesOf(tasks[h].run, d) : Resolved(g))
    /\ [][\A h \in DOMAIN tasks' :
             tasks'[h].status \in {"ok", "failed"} =>
                /\ h \in DOMAIN tasks
                /\ tasks[h].status \in {"running", tasks'[h].status}]_vars

\* a stage is at work whose only prerequisite is a stage that itself had to
\* wait for a third
C10_Witness ==
    \E h \in DOMAIN tasks :
        /\ tasks[h].status = "running"
        /\ Len(tasks[h].dependencies) = 1
        /\ Cardinality(TransitiveDependencies(self.pipeline, tasks[h].name)) = 2

\* C11: while run() waits at the barrier, and after it has returned, the table
\* has one entry per stage of the pipeline; the wait begins only in a step
\* that finds the table complete, and from then on no stage is dispatched
\* until run() is called again.
C11_BarrierAfterAllDispatched ==
    /\ [](pc \in {"AwaitingCompletion", "Returned"} =>
             /\ Cardinality(DOMAIN stage_to_id) = Len(self.pipeline.order)
             /\ \A n \in RangeOf(self.pipeline.order) : HandlesOf(run, n) # {})
    /\ [][/\ (pc # "AwaitingCompletion" /\ pc' = "AwaitingCompletion") =>
                Cardinality(DOMAIN stage_to_id) = Len(self.pipeline.order)
          /\ (pc \in {"AwaitingCompletion", "Returned"} /\ run' = run) =>
                (Len(tasks') = Len(tasks) /\ stage_to_id' = stage_to_id)]_vars

\* run() waits at the barrier of a two-stage pipeline while a stage is at work
C11_Witness ==
    /\ pc = "AwaitingCompletion"
    /\ Len(self.pipeline.order) = 2
    /\ \E h \in TasksOfRun(run) : tasks[h].status = "running"

\* C12: at every point of the loop the names in the table are the first idx
\* names of the declaration order, and their object ids were handed out in
\* that order.
C12_TableIsPrefix ==
    pc \in {"Dispatching", "AwaitingCompletion", "Returned", "Raised"} =>
        /\ idx <= Len(self.pipeline.order)
        /\ DOMAIN stage_to_id = DeclaredBefore(self.pipeline, idx + 1)
        /\ \A i, j \in 1..idx :
               i < j => stage_to_id[self.pipeline.order[i]] < stage_to_id[self.pipeline.order[j]]

\* the loop is still running, the stage declared second has finished its
\* work, and the stage declared first has not begun its own
C12_Witness ==
    /\ pc = "Dispatching"
    /\ idx = 2
    /\ tasks[stage_to_id["B"]].status = "ok"
    /\ tasks[stage_to_id["A"]].status = "pending"

\* task h waits for nothing: every stage its stage depends on, directly or
\* not, has a resolved object id of the same run
FreeToStart(h) ==
    /\ tasks[h].status = "pending"
    /\ \A d \in TransitiveDependencies(self.pipeline, tasks[h].name) :
          \E g \in HandlesOf(tasks[h].run, d) : Resolved(g)

\* C13: a dispatched stage that waits for none of the stages it depends on
\* can begin its work whatever the state of the stages it does not depend
\* on; and a stage that has begun has its immediate dependencies resolved.
C13_UnrelatedStagesUnordered ==
    [](\A h \in DOMAIN tasks :
          /\ FreeToStart(h) => ENABLED StageStart(h)
          /\ Started(h) =>
                \A d \in DepsOf(self.pipeline, tasks[h].name) :
                    \E g \in HandlesOf(tasks[h].run, d) : Resolved(g))

\* the pipeline {A, B on A, C on A}
Diamond ==
    /\ self.pipeline.order = <<"A", "B", "C">>
    /\ self.pipeline.deps["A"] = {}
    /\ self.pipeline.deps["B"] = {"A"}
    /\ self.pipeline.deps["C"] = {"A"}

\* in {A, B on A, C on A}, B and C are at work at the same time
C13_Witness ==
    /\ Diamond
    /\ pc = "AwaitingCompletion"
    /\ tasks[stage_to_id["B"]].status = "running"
    /\ tasks[stage_to_id["C"]].status = "running"

\* in {A, B on A, C on A}, B has finished and C has not begun
C13_BFirst ==
    /\ Diamond
    /\ pc = "AwaitingCompletion"
    /\ Resolved(stage_to_id["B"])
    /\ tasks[stage_to_id["C"]].status = "pending"

\* in {A, B on A, C on A}, C has finished and B has not begun
C13_CFirst ==
    /\ Diamond
    /\ pc = "AwaitingCompletion"
    /\ Resolved(stage_to_id["C"])
    /\ tasks[stage_to_id["B"]].status = "pending"

\* C14: when the loop raises, for an unknown stage or an unresolved
\* dependency, the stages of the run that were dispatched are exactly those
\* declared before the offending one; the raising step leaves every
\* dispatched stage run as it was, and after it nothing is dispatched, the
\* table does not change and the barrier is not entered until run() is
\* called again.
C14_AbortOnDispatchError ==
    /\ [](pc = "Raised" =>
             /\ error # None
             /\ error[1].kind \in {"UnknownStageError", "UnresolvedDependencyError"}
             /\ {tasks[h].name : h \in TasksOfRun(run)}
                   = DeclaredBefore(self.pipeline, Position(self.pipeline, error[1].stage)))
    /\ [][/\ (pc = "Dispatching" /\ pc' = "Raised") => tasks' = tasks
          /\ (pc = "Raised" /\ run' = run) =>
                /\ pc' = "Raised"
                /\ Len(tasks') = Len(tasks)
                /\ stage_to_id' = stage_to_id
                /\ \A h \in DOMAIN tasks :
                       tasks'[h].status # tasks[h].status =>
                          <<tasks[h].status, tasks'[h].status>>
                             \in {<<"pending", "running">>, <<"running", "ok">>,
                                  <<"running", "failed">>}]_vars

\* run() has raised UnknownStageError at the second stage, and the stage
\* dispatched before it has gone on to complete
C14_Witness ==
    /\ pc = "Raised"
    /\ error[1].kind = "UnknownStageError"
    /\ error[1].stage = "B"
    /\ \E h \in TasksOfRun(run) : tasks[h].status = "ok"

\* the stages of the current run whose work has failed
FailedStages == {tasks[f].name : f \in {h \in TasksOfRun(run) : tasks[h].status = "failed"}}

\* every stage that depends on no failed stage has a resolved object id of
\* the current run
SiblingsDone ==
    \A n \in RangeOf(self.pipeline.order) :
        (TransitiveDependencies(self.pipeline, n) \cap FailedStages = {}) =>
            \E h \in HandlesOf(run, n) : Resolved(h)

\* C15: the step in which a stage fails changes no other stage run; run()
\* does not return before every stage that depends on no failed stage has
\* resolved; and once a stage of a valid pipeline has failed, run() goes on to
\* return with all those stages resolved.
C15_FailureLeavesSiblings ==
    /\ [][\A h \in DOMAIN tasks :
             (tasks[h].status # "failed" /\ tasks'[h].status = "failed") =>
                \A g \in DOMAIN tasks \ {h} : tasks'[g] = tasks[g]]_vars
    /\ []((pc = "Returned" /\ FailedStages # {}) => SiblingsDone)
    /\ ((ValidPipeline(self.pipeline) /\ FailedStages # {})
            ~> (pc = "Returned" /\ SiblingsDone))

\* run() has returned; the stage declared first failed, and a stage declared
\* after it that does not depend on it completed
C15_Witness ==
    /\ pc = "Returned"
    /\ "A" \in FailedStages
    /\ \E h \in TasksOfRun(run) :
          /\ tasks[h].status = "ok"
          /\ "A" \notin TransitiveDependencies(self.pipeline, tasks[h].name)

\* C16: run() initialises ray only when it is not initialised, and then with
\* the debug flag of its environment; the environment is the one passed, or a
\* new one for the experiment's save path when none is passed; it stays the
\* same for the whole run, and every stage of the run is dispatched with it.
C16_InitOnceSharedEnv ==
    /\ [][/\ run' = run + 1 =>
                /\ ray_initialized'
                /\ ray_initialized => ray_local_mode' = ray_local_mode
                /\ ~ray_initialized => ray_local_mode' = Some(env'[1].debug)
                /\ env_arg' # None => env' = env_arg'
                /\ env_arg' = None =>
                      env' = Some([origin |-> "constructed", path |-> self.save_path,
                                   debug |-> FALSE])
          /\ run' = run =>
                /\ env' = env
                /\ ray_initialized' = ray_initialized
                /\ ray_local_mode' = ray_local_mode
                /\ \A h \in DOMAIN tasks : tasks'[h].environment = tasks[h].environment]_vars
    /\ [](\A h \in TasksOfRun(run) : tasks[h].environment = env[1])

\* ray was initialised in debug mode by the first run(); the second run() was
\* given no environment, built one without debug, and dispatched a stage with it
C16_Witness ==
    /\ run = 2
    /\ ray_local_mode = Some(TRUE)
    /\ env_arg = None
    /\ \E h \in TasksOfRun(run) : tasks[h].environment.origin = "constructed"

\* C17: on a pipeline with no stages run() dispatches nothing and raises
\* nothing; in the loop it can enter the barrier at once, with an empty
\* table, and at the barrier it can return at once.
C17_EmptyPipelineCompletes ==
    [](Len(self.pipeline.order) = 0 =>
          /\ tasks = <<>>
          /\ stage_to_id = EmptyDict
          /\ error = None
          /\ pc # "Raised"
          /\ pc = "Dispatching" => (idx = 0 /\ ENABLED EnterBarrier)
          /\ pc = "AwaitingCompletion" => ENABLED BarrierReturn)

\* the second run() on a pipeline with no stages has returned
C17_Witness ==
    /\ Len(self.pipeline.order) = 0
    /\ run = 2
    /\ pc = "Returned"

\* C18: run() begins with an empty table and never changes the experiment's
\* fields; the table holds only object ids handed out during the current
\* run, which are therefore the only ones awaited, and a stage's
\* prerequisites are object ids of its own run; a run that reaches the
\* barrier has dispatched every stage anew.
C18_RunsAreIndependent ==
    /\ [][/\ self' = self
          /\ run' = run + 1 => (stage_to_id' = EmptyDict /\ tasks' = tasks)]_vars
    /\ [](/\ Values(stage_to_id) \subseteq TasksOfRun(run)
          /\ \A h \in DOMAIN tasks :
                RangeOf(tasks[h].dependencies) \subseteq TasksOfRun(tasks[h].run)
          /\ pc \in {"AwaitingCompletion", "Returned"} =>
                \A n \in RangeOf(self.pipeline.order) :
                    /\ Cardinality(HandlesOf(run, n)) = 1
                    /\ stage_to_id[n] \in HandlesOf(run, n))

\* the second run() on a chain of three stages has returned: each run
\* dispatched its own three stage runs
C18_Witness ==
    /\ run = 2
    /\ pc = "Returned"
    /\ self.pipeline.deps = [n \in {"A", "B", "C"} |->
                               IF n = "A" THEN {} ELSE IF n = "B" THEN {"A"} ELSE {"B"}]
    /\ Cardinality(TasksOfRun(1)) = 3
    /\ Cardinality(TasksOfRun(2)) = 3
    /\ TasksOfRun(1) \cap Values(stage_to_id) = {}

====
